---- MODULE Spec2Model ----
(***************************************************************************)
(* BERA Tools: centerline extraction (beratools/core/algo_centerline.py)   *)
(* and least-cost path search (beratools/core/algo_dijkstra.py).           *)
(*                                                                         *)
(* Geometry is modelled on one axis: a line is the sequence of its         *)
(* vertices' coordinates along the corridor axis, so lengths, distances,   *)
(* substrings, trimming and end snapping are computed exactly in integers. *)
(* Polygons are abstract (only their type and emptiness is read by the     *)
(* code modelled here); the results of the library calls that work on them *)
(* (skeletonization, split, pairing) are chosen nondeterministically among *)
(* the kinds of result the library can return.                             *)
(***************************************************************************)
EXTENDS Integers, Sequences, FiniteSets, TLC

\* ---------------------------------------------------------------- bounds
\* Nesting depth of find_centerline calls that is explored.
MaxDepth == 2
\* Skeleton vertices lie on the coordinates 0, Step, ..., MaxCell * Step.
MaxCell == 4
\* Largest number of vertices of a skeleton line.
MaxPts == 2
\* The larger of the two cost values of a raster cell (the other is 1).
MaxCost == 3
\* Largest number of destination cells of a dijkstra call.
MaxEnds == 2
MaxRows == 3
MaxEvents == 4

\* ------------------------------------------------------ program constants
\* CenterlineParams.BUFFER_CLIP
BUFFER_CLIP == 5
\* CenterlineStatus
SUCCESS == 1
FAILED == 2
REGENERATE_SUCCESS == 3
REGENERATE_FAILED == 4
\* bt_const.BT_EPSILON: smaller than the model's unit of length, so that
\* "distance > BT_EPSILON" is "distance > 0" on integer coordinates.
BT_EPSILON == 0
\* The raster's nodata value, in_meta['nodata'], and bt_const.BT_NODATA
ras_nodata == -9999
BT_NODATA == -9999
\* The cost block2matrix_numpy gives a nodata cell
NODATA_COST == 9999

\* Coordinates are multiples of Step so that every half of a half of a
\* reference line, down to MaxDepth, has integer end points.
Step == 2 ^ MaxDepth

Abs(x) == IF x < 0 THEN -x ELSE x

\* ------------------------------------------------------------- geometries
NoneGeom == [k |-> "None"]
LineString(pts) == [k |-> "LineString", pts |-> pts]
PointGeom(x) == [k |-> "Point", pts |-> <<x>>]
MultiLineString(parts) == [k |-> "MultiLineString", parts |-> parts]
Polygon == [k |-> "Polygon", empty |-> FALSE]
EmptyPolygon == [k |-> "Polygon", empty |-> TRUE]
MultiPolygon == [k |-> "MultiPolygon", empty |-> FALSE]

is_empty(g) ==
    CASE g.k \in {"LineString", "Point"} -> g.pts = <<>>
      [] g.k = "MultiLineString" -> g.parts = <<>>
      [] g.k \in {"Polygon", "MultiPolygon"} -> g.empty
      [] OTHER -> FALSE

\* Python truth value of a geometry or None: "if not poly", "if not centerline".
Truthy(g) == g.k # "None" /\ ~is_empty(g)

Reverse(s) == [i \in 1..Len(s) |-> s[Len(s) + 1 - i]]

RECURSIVE SeqMin(_)
SeqMin(s) == IF Len(s) = 1 THEN s[1]
             ELSE LET m == SeqMin(Tail(s)) IN IF s[1] < m THEN s[1] ELSE m

RECURSIVE SeqMax(_)
SeqMax(s) == IF Len(s) = 1 THEN s[1]
             ELSE LET m == SeqMax(Tail(s)) IN IF s[1] > m THEN s[1] ELSE m

\* geometry.length of a line with vertices pts
RECURSIVE length(_)
length(pts) == IF Len(pts) < 2 THEN 0
               ELSE Abs(pts[2] - pts[1]) + length(Tail(pts))

\* geometry.distance(Point(p)) of a non-empty line with vertices pts
distance(pts, p) ==
    LET lo == SeqMin(pts)
        hi == SeqMax(pts)
    IN IF p < lo THEN lo - p ELSE IF p > hi THEN p - hi ELSE 0

\* line.interpolate(d): the coordinate at distance d along pts
RECURSIVE interpolate(_, _)
interpolate(pts, d) ==
    IF Len(pts) = 1 \/ d <= 0 THEN pts[1]
    ELSE LET seg == Abs(pts[2] - pts[1])
         IN IF d <= seg
            THEN (IF pts[2] >= pts[1] THEN pts[1] + d ELSE pts[1] - d)
            ELSE interpolate(Tail(pts), d - seg)

\* shapely.ops.substring(line, start_dist, end_dist): a Point when the two
\* distances are equal, else the piece of the line between them
substring(pts, a, b) ==
    IF a = b THEN PointGeom(interpolate(pts, a))
    ELSE LET idx == SelectSeq([i \in 1..Len(pts) |-> i],
                              LAMBDA i : /\ length(SubSeq(pts, 1, i)) > a
                                         /\ length(SubSeq(pts, 1, i)) < b)
             inner == [j \in 1..Len(idx) |-> pts[idx[j]]]
         IN LineString(<<interpolate(pts, a)>> \o inner \o <<interpolate(pts, b)>>)

\* shapely.ops.linemerge of a MultiLineString of one or two parts: parts
\* that share an end point are joined, else the MultiLineString stays
linemerge(parts) ==
    IF Len(parts) = 1 THEN LineString(parts[1])
    ELSE LET a == parts[1]
             b == parts[2]
         IN IF a[Len(a)] = b[1] THEN LineString(a \o Tail(b))
            ELSE IF b[Len(b)] = a[1] THEN LineString(b \o Tail(a))
            ELSE IF a[1] = b[1] THEN LineString(Reverse(a) \o Tail(b))
            ELSE IF a[Len(a)] = b[Len(b)] THEN LineString(a \o Tail(Reverse(b)))
            ELSE MultiLineString(parts)

\* ------------------------------------------------- centerline_is_valid
centerline_is_valid(centerline, input_line) ==
    IF ~Truthy(centerline) THEN FALSE
    ELSE IF \/ 2 * length(centerline.pts) < length(input_line.pts)
            \/ distance(centerline.pts, input_line.pts[1]) > BT_EPSILON
            \/ distance(centerline.pts, input_line.pts[Len(input_line.pts)])
                   > BT_EPSILON
         THEN FALSE
         ELSE TRUE

\* A slip in the snapping: the farther reference end is taken.
nearest_points_far(p, ref) ==
    LET r0 == ref[1]
        r1 == ref[Len(ref)]
    IN IF Abs(p - r0) >= Abs(p - r1) THEN {r0} ELSE {r1}

\* ----------------------------------------------------- snap_end_to_end
\* sh_ops.nearest_points(Point(p), MultiPoint(ref ends)): the nearer end of
\* the reference line; either of them when p is equally far from both
nearest_points(p, ref) ==
    LET r0 == ref[1]
        r1 == ref[Len(ref)]
    IN IF Abs(p - r0) < Abs(p - r1) THEN {r0}
       ELSE IF Abs(p - r1) < Abs(p - r0) THEN {r1}
       ELSE {r0, r1}

\* The set of results snap_end_to_end can return (more than one only when
\* an end of in_line is equally far from both ends of the reference).
snap_end_to_end(in_line, line_reference) ==
    LET merged == IF in_line.k = "MultiLineString"
                  THEN linemerge(in_line.parts) ELSE in_line
    IN IF merged.k = "MultiLineString" THEN {NoneGeom}
       ELSE IF Len(merged.pts) < 2 THEN {merged}
       ELSE LET pts == merged.pts
            IN { LineString([pts EXCEPT ![1] = s, ![Len(pts)] = e]) :
                   s \in nearest_points(pts[1], line_reference.pts),
                   e \in nearest_points(pts[Len(pts)], line_reference.pts) }

\* ------------------------------------------ trimming (lines 189-200)
\* A line that runs out to a bend and back to the point it started from
Turning(pts) == Len(pts) = 3 /\ pts[1] = pts[3] /\ pts[2] # pts[1]

\* centerline.difference(disc of radius BUFFER_CLIP around its first
\* point), then the same around its (original) last point, for a line whose
\* vertices run in one direction along the axis, and for a turning line
trim_ends(pts) ==
    LET n == Len(pts)
        d == IF pts[n] >= pts[1] THEN 1 ELSE -1
        a == pts[1] + d * BUFFER_CLIP
        b == pts[n] - d * BUFFER_CLIP
        inner == SelectSeq(pts, LAMBDA x : (x - a) * d > 0 /\ (b - x) * d > 0)
        out == IF pts[2] > pts[1] THEN 1 ELSE -1
    IN IF Turning(pts)
       THEN IF Abs(pts[2] - pts[1]) <= BUFFER_CLIP
            THEN LineString(<<>>)
            ELSE LineString(<<pts[1] + out * BUFFER_CLIP, pts[2],
                              pts[1] + out * BUFFER_CLIP>>)
       ELSE IF (pts[n] - pts[1]) * d <= 2 * BUFFER_CLIP
       THEN LineString(<<>>)
       ELSE LineString(<<a>> \o inner \o <<b>>)

\* --------------------------------------------- find_corridor_polygon
\* The corridor raster is a grid of cells <<row, col>> holding 0 or 1; a
\* cell is a unit square, a traced region is the set of its cells.
Adj4(c, d) == Abs(c[1] - d[1]) + Abs(c[2] - d[2]) = 1

\* The cells that rasterio.features.shapes traces: those of the mask, lines
\* 229-233, i.e. the cells where corridor_thresh is 0
traced_cells(corridor_thresh) ==
    LET corridor_thresh_cl == [c \in DOMAIN corridor_thresh |->
                                 IF corridor_thresh[c] = 0 THEN 1 ELSE 0]
    IN {c \in DOMAIN corridor_thresh : 1 = corridor_thresh_cl[c]}

\* The region of cell c: the cells joined to it edge by edge
RECURSIVE Grow(_, _)
Grow(region, cells) ==
    LET more == {d \in cells \ region : \E c \in region : Adj4(c, d)}
    IN IF more = {} THEN region ELSE Grow(region \cup more, cells)

\* rasterio.features.shapes (connectivity 4): the regions of the traced
\* cells
shapes(cells) == {Grow({c}, cells) : c \in cells}

\* Lines 238-242: the regions of area > 1, in the order they are traced (by
\* their first cell in row-major order)
FirstCell(region) ==
    CHOOSE c \in region : \A d \in region :
       c[1] < d[1] \/ (c[1] = d[1] /\ c[2] <= d[2])

RECURSIVE InOrder(_)
InOrder(regions) ==
    IF regions = {} THEN <<>>
    ELSE LET first == CHOOSE r \in regions : \A q \in regions :
                         FirstCell(r)[1] < FirstCell(q)[1]
                         \/ (FirstCell(r)[1] = FirstCell(q)[1]
                             /\ FirstCell(r)[2] <= FirstCell(q)[2])
         IN <<first>> \o InOrder(regions \ {first})

retained_regions(corridor_thresh) ==
    InOrder({r \in shapes(traced_cells(corridor_thresh)) : Cardinality(r) > 1})

\* shapely.intersects for two regions without a common cell or edge: they
\* meet in a corner point
Touching(p, q) ==
    \E c \in p, d \in q : Abs(c[1] - d[1]) = 1 /\ Abs(c[2] - d[2]) = 1

\* The square of the distance between two regions
Dist2(p, q) ==
    LET gap(a, b) == IF Abs(a - b) > 1 THEN Abs(a - b) - 1 ELSE 0
        d2(c, d) == gap(c[1], d[1]) * gap(c[1], d[1])
                    + gap(c[2], d[2]) * gap(c[2], d[2])
        all == {d2(c, d) : c \in p, d \in q}
    IN CHOOSE m \in all : \A n \in all : m <= n

\* The merge loop, lines 250-258, on the parts of the union (distinct
\* regions share no edge, so the parts are the regions). merge_poly is kept
\* as the set of its connected pieces. A part that meets merge_poly does so
\* in corner points only, and the union keeps it a piece of its own; a part
\* apart from it is buffered by its distance plus 0.1, which joins it to the
\* nearest pieces. (The extent of earlier buffers is not kept: exact for up
\* to two regions, which is all a 3 x 3 raster can hold.)
RECURSIVE merge_loop(_, _, _)
merge_loop(merge_poly, poly_list, i) ==
    IF i > Len(poly_list) THEN merge_poly
    ELSE LET part == poly_list[i]
             all == {Dist2(piece, part) : piece \in merge_poly}
             least == CHOOSE m \in all : \A n \in all : m <= n
             near == {piece \in merge_poly : Dist2(piece, part) = least}
         IN IF \E piece \in merge_poly : Touching(piece, part)
            THEN merge_loop(merge_poly \cup {part}, poly_list, i + 1)
            ELSE merge_loop((merge_poly \ near) \cup {part \cup UNION near},
                            poly_list, i + 1)

\* corridor_polygon: the list of traced regions of area > 1. None when the
\* list is empty; else their union, merged by the loop when it has several
\* parts.
find_corridor_polygon(corridor_polygon) ==
    IF corridor_polygon = <<>> THEN NoneGeom
    ELSE IF Len(corridor_polygon) = 1 THEN Polygon
    ELSE IF Cardinality(merge_loop({corridor_polygon[1]}, corridor_polygon, 2)) = 1
         THEN Polygon
         ELSE MultiPolygon

\* ======================================================= least-cost path
\* ------------------------------------------------------------ cost grids
\* A raster or matrix cell: a number, NaN, or Python's None
Num(v) == [t |-> "num", v |-> v]
NaN == [t |-> "nan"]
PyNone == [t |-> "None"]

\* A grid of shape <<rows, columns>> maps the cells <<row, col>> to values
Cells(shape) == (0..(shape[1] - 1)) \X (0..(shape[2] - 1))

\* MinCostPathHelper.block2matrix_numpy: nodata, everything below it and
\* NaN become 9999; a remaining negative value is reported
block2matrix_numpy(block, nodata) ==
    LET masked(x) == x.t = "nan" \/ x.v <= nodata
    IN [matrix |-> [c \in DOMAIN block |->
                      IF masked(block[c]) THEN Num(NODATA_COST) ELSE block[c]],
        contains_negative |->
            \E c \in DOMAIN block : ~masked(block[c]) /\ block[c].v < 0]

\* MinCostPathHelper.block2matrix: nodata cells become None; a remaining
\* negative value is reported
block2matrix(block, nodata) ==
    LET matrix == [c \in DOMAIN block |->
                     IF block[c].t = "num"
                        /\ (block[c].v = nodata \/ block[c].v = BT_NODATA)
                     THEN PyNone ELSE block[c]]
    IN [matrix |-> matrix,
        contains_negative |->
            \E c \in DOMAIN block : /\ matrix[c].t = "num"
                                    /\ matrix[c].v < 0
                                    /\ matrix[c].v # BT_NODATA]

\* ----------------------------------------------------------------- costs
\* A path cost is (a + b * sqrt(2)) / 2 with a, b integers: a collects the
\* cell-cost sums of the axis steps, b those of the diagonal steps.
Cost(a, b) == [a |-> a, b |-> b]
CAdd(x, y) == Cost(x.a + y.a, x.b + y.b)

\* Squares are kept as three digits to the base 10^4 (32-bit integers
\* cannot hold the square of a sum of 9999s)
Base == 10 ^ 4
Sq3(p) ==
    LET ph == p \div Base
        pl == p % Base
        t0 == pl * pl
        t1 == 2 * ph * pl + (t0 \div Base)
    IN <<ph * ph + (t1 \div Base), t1 % Base, t0 % Base>>
Dbl3(x) ==
    LET d0 == 2 * x[3]
        d1 == 2 * x[2] + (d0 \div Base)
    IN <<2 * x[1] + (d1 \div Base), d1 % Base, d0 % Base>>
Less3(x, y) ==
    \/ x[1] < y[1]
    \/ x[1] = y[1] /\ x[2] < y[2]
    \/ x[1] = y[1] /\ x[2] = y[2] /\ x[3] < y[3]

\* x < y for costs: x.a - y.a < (y.b - x.b) * sqrt(2), decided exactly
CLess(x, y) ==
    LET p == x.a - y.a
        q == y.b - x.b
    IN IF p < 0
       THEN q >= 0 \/ Less3(Dbl3(Sq3(-q)), Sq3(-p))
       ELSE q > 0 /\ Less3(Sq3(p), Dbl3(Sq3(q)))

\* --------------------------------------------------- dijkstra's Grid class
_in_bounds(shape, id) ==
    0 <= id[1] /\ id[1] < shape[1] /\ 0 <= id[2] /\ id[2] < shape[2]

_passable(map, id) == map[id].t # "None"

is_valid(map, shape, id) == _in_bounds(shape, id) /\ _passable(map, id)

neighbors(map, shape, id) ==
    LET x == id[1]
        y == id[2]
        results == {<<x + 1, y>>, <<x, y - 1>>, <<x - 1, y>>, <<x, y + 1>>,
                    <<x + 1, y - 1>>, <<x + 1, y + 1>>,
                    <<x - 1, y - 1>>, <<x - 1, y + 1>>}
    IN {n \in results : is_valid(map, shape, n)}

\* A slip in the edge cost: the diagonal step is not scaled by sqrt(2).
simple_cost_unscaled(map, cur, nex) ==
    Cost(map[cur].v + map[nex].v, 0)

simple_cost(map, cur, nex) ==
    LET currV == map[cur].v
        offsetV == map[nex].v
    IN IF cur[1] = nex[1] \/ cur[2] = nex[2]
       THEN Cost(currV + offsetV, 0)
       ELSE Cost(0, currV + offsetV)

\* ------------------------------------------------------------ dijkstra_np
Adjacent(c, d) ==
    c # d /\ Abs(c[1] - d[1]) <= 1 /\ Abs(c[2] - d[2]) <= 1

SeqRange(p) == {p[i] : i \in 1..Len(p)}

\* The paths of k cells that start at s, repeat no cell and stay in cs
RECURSIVE PathsOfLen(_, _, _)
PathsOfLen(cs, s, k) ==
    IF k = 1 THEN {<<s>>}
    ELSE UNION {{Append(p, c) : c \in {d \in cs \ SeqRange(p) :
                                          Adjacent(p[Len(p)], d)}} :
                p \in PathsOfLen(cs, s, k - 1)}

SimplePaths(cs, s, e) ==
    {p \in UNION {PathsOfLen(cs, s, k) : k \in 1..Cardinality(cs)} :
        p[Len(p)] = e}

\* The cost MCP_Geometric gives a path: per step the mean of the two cell
\* values, times sqrt(2) for a diagonal step
RECURSIVE route_cost(_, _)
route_cost(m, p) ==
    IF Len(p) < 2 THEN Cost(0, 0)
    ELSE CAdd(IF p[1][1] = p[2][1] \/ p[1][2] = p[2][2]
              THEN Cost(m[p[1]].v + m[p[2]].v, 0)
              ELSE Cost(0, m[p[1]].v + m[p[2]].v),
              route_cost(m, Tail(p)))

\* sk_graph.route_through_array(matrix, start, end), fully connected and
\* geometric: the paths of least cost from start to end (which of several
\* equal ones is returned is not specified)
route_through_array(m, shape, start, end) ==
    LET ps == SimplePaths(Cells(shape), start, end)
    IN {p \in ps : \A q \in ps : ~CLess(route_cost(m, q), route_cost(m, p))}

\* dijkstra_np(start_tuple, end_tuple, matrix): the possible outcomes, each
\* the result (none: the function returned None) and the matrix as the
\* call leaves it
dijkstra_np(start_node, end_node, matrix, shape) ==
    IF ~_in_bounds(shape, start_node)
    THEN {[none |-> TRUE, result |-> <<>>, matrix |-> matrix]}  \* IndexError
    ELSE IF ~_in_bounds(shape, end_node)
    THEN {[none |-> TRUE, result |-> <<>>,
           matrix |-> [matrix EXCEPT ![start_node] = Num(0)]]}
    ELSE LET m == [matrix EXCEPT ![start_node] = Num(0), ![end_node] = Num(0)]
         IN {[none |-> FALSE,
              result |-> <<[path |-> p,
                            costs |-> [i \in 1..Len(p) |-> Cost(0, 0)],
                            end |-> end_node]>>,
              matrix |-> m] :
                p \in route_through_array(m, shape, start_node, end_node)}

\* --------------------------------------------------- find_least_cost_path
\* The raster's affine transform: a cell is two units wide and high, the
\* origin is the corner of cell (0, 0)
rowcol(pt) == <<pt[2] \div 2, pt[1] \div 2>>
xy(row_col) == <<2 * row_col[2] + 1, 2 * row_col[1] + 1>>

\* Python's min of two tuples
TupleMin(a, b) ==
    IF a[1] < b[1] \/ (a[1] = b[1] /\ a[2] <= b[2]) THEN a ELSE b

\* MinCostPathHelper.create_points_from_path
create_points_from_path(min_cost_path, start_point, end_point) ==
    LET path_points == [i \in 1..Len(min_cost_path) |-> xy(min_cost_path[i])]
        first_set == [path_points EXCEPT ![1] = start_point]
    IN [first_set EXCEPT ![Len(first_set)] = end_point]

\* find_least_cost_path(out_image, in_meta, line) with
\* USE_NUMPY_FOR_DIJKSTRA = True: the possible outcomes. refused: the
\* negative-value error was reported; path: what the solver returned;
\* lc_path: the line returned (None when there is none).
find_least_cost_path(out_image, shape, nodata, line) ==
    LET pt_start == line[1]
        pt_end == line[Len(line)]
        image == [c \in DOMAIN out_image |->
                    IF out_image[c].t = "num" /\ out_image[c].v < 0
                    THEN NaN ELSE out_image[c]]
        b2m == block2matrix_numpy(image, nodata)
        mat_size == <<shape[1] - 1, shape[1] - 1>>
        start_cell == TupleMin(rowcol(pt_start), mat_size)
        end_cell == TupleMin(rowcol(pt_end), mat_size)
    IN IF b2m.contains_negative
       THEN {[refused |-> TRUE, path |-> <<>>, lc_path |-> PyNone,
              start |-> start_cell, end |-> end_cell]}
       ELSE {[refused |-> FALSE,
              path |-> IF o.none THEN <<>> ELSE o.result[1].path,
              lc_path |->
                 IF o.none THEN PyNone
                 ELSE LET path_points ==
                            create_points_from_path(o.result[1].path,
                                                    pt_start, pt_end)
                      IN IF Len(path_points) >= 2
                         THEN [t |-> "LineString", pts |-> path_points]
                         ELSE PyNone,
              start |-> start_cell, end |-> end_cell] :
                o \in dijkstra_np(start_cell, end_cell, b2m.matrix, shape)}

\* ------------------------------------------ find_least_cost_path_skimage
\* The numbers of dimensions cost_clip may have
ClipAxes == {2, 3, 4}

\* find_least_cost_path_skimage(cost_clip, in_meta, seed_line): the possible
\* outcomes. After the squeeze of one leading axis (lines 473-474),
\* cost_clip[0] (line 485) is a grid only when cost_clip had four axes;
\* otherwise it is one row, which route_through_array refuses for a
\* (row, col) start. In the grid, cells of negative value cannot be entered;
\* what route_through_array does when the start or the end cell itself is
\* negative is left open (no path, or any path between them).
find_least_cost_path_skimage(cost_clip, axes, shape, seed_line) ==
    LET pt1 == seed_line[1]
        pt2 == seed_line[Len(seed_line)]
        rc1 == rowcol(pt1)
        rc2 == rowcol(pt2)
        none == [path |-> <<>>, lc_path |-> PyNone]
        line(p) == [path |-> p,
                    lc_path |-> IF Len(p) < 2 THEN PyNone
                                ELSE [t |-> "LineString",
                                      pts |-> [i \in 1..Len(p) |-> xy(p[i])]]]
        open == {c \in Cells(shape) : cost_clip[c].v >= 0}
    IN IF axes # 4 \/ ~_in_bounds(shape, rc1) \/ ~_in_bounds(shape, rc2)
       THEN {none}                                   \* ValueError, caught
       ELSE IF rc1 \in open /\ rc2 \in open
       THEN LET ps == SimplePaths(open, rc1, rc2)
                best == {p \in ps : \A q \in ps :
                           ~CLess(route_cost(cost_clip, q),
                                  route_cost(cost_clip, p))}
            IN IF ps = {} THEN {none} ELSE {line(p) : p \in best}
       ELSE {none} \cup
            {line(p) : p \in SimplePaths(open \cup {rc1, rc2}, rc1, rc2)}

\* ---------------------------------------------------------------- inputs
\* Raster values: nodata, a negative value that is not nodata, two costs
RasterValues == {Num(ras_nodata), Num(-5), Num(1), Num(MaxCost)}

\* Grid shapes: a square one, and a corridor in which the end cells are
\* not neighbours
Shapes == {<<2, 2>>, <<1, 3>>}

Valid(block) == \A c \in DOMAIN block : block[c].v >= 0 \/ block[c].v = ras_nodata

\* The seed point of a cell: the cell's corner, not its centre
SeedPoint(cell) == <<2 * cell[2], 2 * cell[1]>>

\* Source cells of a call: in the grid, one row below it, or one column to
\* the right of it
Sources(sh) == Cells(sh) \cup {<<sh[1], 0>>, <<0, sh[2]>>}

\* Destination cells of a call
EndSets(sh) == {e \in SUBSET Cells(sh) : Cardinality(e) \in 1..MaxEnds}

\* ----------------------------------------------------- centerline inputs
Coords == {i * Step : i \in 0..MaxCell}

Monotone(s) == \/ \A i \in 1..(Len(s) - 1) : s[i] < s[i + 1]
               \/ \A i \in 1..(Len(s) - 1) : s[i] > s[i + 1]

\* The lines get_centerline may return: vertices on Coords, in one direction
SkeletonPts ==
    {s \in UNION {[1..n -> Coords] : n \in 2..MaxPts} : Monotone(s)}

\* The two-part results get_centerline may return: two unit pieces a unit
\* apart
SkeletonParts ==
    {<<(<<c, c + Step>>), (<<c + 2 * Step, c + 3 * Step>>)>> :
        c \in {x \in Coords : x + 3 * Step \in Coords}}

\* The turning line get_centerline may return: from the origin out to a
\* bend at the end of the short reference line, and back
SkeletonTurns == {<<0, 3 * Step, 0>>}

\* Outcomes of get_centerline(poly, ...): an exception, an empty result, a
\* line, a turning line, a MultiLineString of no part, of one part (these
\* start at the origin), of two parts
SkeletonOutcomes ==
    {[k |-> "raise"], LineString(<<>>), MultiLineString(<<>>)}
    \cup {LineString(s) : s \in SkeletonTurns}
    \cup {LineString(s) : s \in SkeletonPts}
    \cup {MultiLineString(<<s>>) : s \in {t \in SkeletonPts : t[1] = 0}}
    \cup {MultiLineString(pq) : pq \in SkeletonParts}

\* Reference lines: empty, zero-length, straight (short and long), with an
\* interior vertex
RefLines ==
    {LineString(<<>>), LineString(<<Step, Step>>), LineString(<<Step, 3 * Step>>),
     LineString(<<Step, 5 * Step>>), LineString(<<Step, 3 * Step, 5 * Step>>)}

\* Corridor rasters handed to find_corridor_polygon
CorridorShape == <<3, 3>>
CorridorRasters == [Cells(CorridorShape) -> {0, 1}]

\* Polygons handed to find_centerline: what find_corridor_polygon returns
\* for the corridor rasters, an empty polygon, a multi-polygon
TopPolys ==
    {find_corridor_polygon(retained_regions(r)) : r \in CorridorRasters}
    \cup {EmptyPolygon, MultiPolygon}

\* What the least-cost-path search of SeedLine.compute may end in: an
\* exception, None, a path of two or more points
LcPathOutcomes ==
    {[k |-> "raise"], NoneGeom} \cup {r \in RefLines : Truthy(r)}

\* Whether bt_common.clip_raster or algo_cost.cost_raster (and, the second
\* time, algo_common.corridor_raster) raises
ClipOutcomes == {"ok", "raise"}

\* ------------------------------------------------------------------ state
VARIABLES
    stack,    \* the find_centerline calls in progress, outermost first
    ret,      \* the last return of a find_centerline call
    outcome,  \* what the outermost caller has seen: running/returned/raised
    inp,           \* the least-cost-path call: raster, source, destinations
    phase,         \* start, dijkstra, np, lcp, done (idle: no such call)
    frontier,      \* dijkstra: the priority queue, (cost, node) entries
    came_from,     \* dijkstra: predecessor of each reached node
    cost_so_far,   \* dijkstra: best known cost of each reached node
    decided,       \* dijkstra: the settled nodes
    end_row_cols,  \* dijkstra: the destinations not yet reached
    result,        \* dijkstra: the (path, costs, end) entries returned
    np_out,        \* what dijkstra_np returned for the same call
    lcp_out,       \* what find_least_cost_path returned for the same call
    sk_out,        \* what find_least_cost_path_skimage returned for it
    fb,            \* dijkstra: isCanceled() calls made, whether one said
                   \* yes, and what dijkstra returned (None or result)
    cor,           \* the find_corridor_polygon call: raster, traced cells,
                   \* retained regions, geometry returned
    geo,           \* a call of centerline_is_valid or snap_end_to_end: the
                   \* arguments and what was returned
    seed,          \* a SeedLine: its seed line, lc_path, centerline, the
                   \* status of its line record, the position of compute
    batch,         \* a find_centerlines call: the rows of poly_gpd, the
                   \* (row, path) pairs, the rows produced
    gui            \* MainWindow: the tool process, cancel_op, what happened
                   \* to the tool started last

cl_vars == <<stack, ret, outcome>>
lcp_vars == <<inp, phase, frontier, came_from, cost_so_far, decided,
              end_row_cols, result, np_out, lcp_out, sk_out, fb>>
vars == <<stack, ret, outcome, inp, phase, frontier, came_from, cost_so_far,
          decided, end_row_cols, result, np_out, lcp_out, sk_out, fb, cor, geo, seed, batch, gui>>
cor_vars == <<cor, geo, seed, batch, gui>>

NoRet == [set |-> FALSE, exc |-> FALSE, geom |-> NoneGeom, status |-> 0,
          line |-> NoneGeom, poly |-> NoneGeom, depth |-> 0, how |-> "none",
          regens |-> 0, raw |-> NoneGeom]

Frame(poly, line) ==
    [poly |-> poly, line |-> line, pc |-> "start", line_2 |-> NoneGeom,
     c1 |-> NoneGeom, regens |-> 0, kids |-> 0]

Top == stack[Len(stack)]
SetTop(f) == [stack EXCEPT ![Len(stack)] = f]
Pop == SubSeq(stack, 1, Len(stack) - 1)

\* A slip in the fallback: no geometry instead of the reference line.
default_return_none(input_line) == [geom |-> NoneGeom, status |-> FAILED]

\* default_return = input_line, CenterlineStatus.FAILED        (line 124)
default_return(input_line) == [geom |-> input_line, status |-> FAILED]

\* The multi-part result among the results of get_centerline, for the record
multi_of(raw) == IF raw.k = "MultiLineString" THEN raw ELSE NoneGeom

\* The top call returns (geom, status) to its caller straight from the
\* result raw of get_centerline, lines 176-224
ReturnRaw(r, how, raw) ==
    /\ ret' = [set |-> TRUE, exc |-> FALSE, geom |-> r.geom,
               status |-> r.status, line |-> Top.line, poly |-> Top.poly,
               depth |-> Len(stack), how |-> how, regens |-> Top.regens,
               raw |-> multi_of(raw)]
    /\ stack' = Pop
    /\ outcome' = IF Len(stack) = 1 THEN "returned" ELSE outcome

\* The top call returns (geom, status) to its caller, before get_centerline
\* or after regenerate_centerline
Return(r, how) == ReturnRaw(r, how, NoneGeom)

\* An exception leaves the top call: it reaches the except clause around
\* the caller's regenerate_centerline (lines 216-222), or, from the
\* outermost call, the caller of find_centerline.
Raise ==
    /\ ret' = [NoRet EXCEPT !.exc = TRUE, !.line = Top.line,
                            !.poly = Top.poly, !.depth = Len(stack)]
    /\ stack' = Pop
    /\ outcome' = IF Len(stack) = 1 THEN "raised" ELSE outcome

\* regenerate_centerline returned None because the polygon did not split
\* (lines 366-368): find_centerline, lines 218-219, returns what it got
regenerate_failed_split ==
    Return([geom |-> NoneGeom, status |-> REGENERATE_SUCCESS], "split failed")

\* A slip in the recovery: a missing half makes find_centerline try
\* regenerate_centerline again.
regenerate_failed_half_retry ==
    /\ stack' = SetTop([Top EXCEPT !.pc = "regen", !.regens = @ + 1])
    /\ UNCHANGED <<ret, outcome>>

\* regenerate_centerline returned None because a half has no centerline
\* (lines 389-391): find_centerline, lines 218-219, returns what it got
regenerate_failed_half ==
    Return([geom |-> NoneGeom, status |-> REGENERATE_SUCCESS], "half missing")

NoInput == [shape |-> <<0, 0>>, block |-> <<>>, src |-> <<0, 0>>, ends |-> {},
            find_nearest |-> FALSE, feedback |-> FALSE]
NoNp == [set |-> FALSE, none |-> FALSE, result |-> <<>>, matrix |-> <<>>]
NoLcp == [set |-> FALSE, refused |-> FALSE, path |-> <<>>, lc_path |-> PyNone,
          start |-> <<0, 0>>, end |-> <<0, 0>>]

NoSk == [set |-> FALSE, axes |-> 0, exc |-> FALSE, path |-> <<>>,
         lc_path |-> PyNone]

NoCor == [called |-> FALSE, corridor_thresh |-> <<>>, traced |-> {},
          regions |-> <<>>, geometry |-> NoneGeom]

NoGeo == [fn |-> "none", called |-> FALSE, line |-> NoneGeom,
          reference |-> NoneGeom, valid |-> FALSE, snapped |-> NoneGeom,
          again |-> NoneGeom]

\* SeedLine.__init__, lines 407-412; status 0: the line record has none
NoSeed == [pc |-> "none", line |-> NoneGeom, lc_path |-> NoneGeom,
           centerline |-> NoneGeom, status |-> 0, returned |-> "nothing",
           raised_in |-> "nothing"]

NoBatch == [pc |-> "none", poly_gpd |-> <<>>, rows_and_paths |-> <<>>,
            centerline_gpd |-> <<>>]

\* MainWindow.__init__, lines 379-380. process: None, or the state of the
\* QProcess (running; ending once kill or terminate was called on it).
\* starts, stops: the clicks on Run and Cancel so far; processes: the
\* QProcess objects alive; spoiled: a tool was terminated by the very
\* start_process that started it.
NoGui == [on |-> FALSE, process |-> "None", cancel_op |-> FALSE,
          btn_run |-> TRUE, starts |-> 0, stops |-> 0, processes |-> 0,
          spoiled |-> FALSE]

NoFb == [checks |-> 0, canceled |-> FALSE, ret |-> "running"]

\* The part of the state a least-cost-path call has not touched yet
LcpFresh ==
    /\ frontier = {}
    /\ came_from = <<>>
    /\ cost_so_far = <<>>
    /\ decided = {}
    /\ end_row_cols = {}
    /\ result = <<>>
    /\ np_out = NoNp
    /\ lcp_out = NoLcp
    /\ sk_out = NoSk
    /\ fb = NoFb

Init ==
    /\ \E poly \in TopPolys, line \in RefLines : stack = <<Frame(poly, line)>>
    /\ ret = NoRet
    /\ outcome = "running"
    /\ inp = NoInput
    /\ phase = "idle"
    /\ LcpFresh
    /\ cor = NoCor
    /\ geo = NoGeo
    /\ seed = NoSeed
    /\ batch = NoBatch
    /\ gui = NoGui

\* find_centerline, lines 124-160: the polygon checks and the reading of
\* the reference line's end points
FC_Begin ==
    /\ stack # <<>>
    /\ UNCHANGED <<lcp_vars, cor_vars>>
    /\ Top.pc = "start"
    /\ IF ~Truthy(Top.poly)
       THEN Return(default_return(Top.line), "no polygon")
       ELSE \E buffered \in (IF Top.poly.k = "MultiPolygon"
                             THEN {Polygon, MultiPolygon} ELSE {Polygon}) :
              IF buffered.k = "MultiPolygon"
              THEN Return(default_return(Top.line), "multi polygon")
              ELSE IF Top.line.pts = <<>>
                   THEN Raise    \* line_coords[0]: IndexError
                   ELSE /\ stack' = SetTop([Top EXCEPT !.pc = "skeleton"])
                        /\ UNCHANGED <<ret, outcome>>

\* A slip in the multi-part test: a MultiLineString of one part is returned
\* as it is as well.
multi_part_any(centerline) == Len(centerline.parts) >= 1

\* len(centerline.geoms) > 1                                    (line 181)
multi_part(centerline) == Len(centerline.parts) > 1

\* find_centerline, lines 162-224 up to the call of regenerate_centerline
FC_Skeleton ==
    /\ stack # <<>>
    /\ UNCHANGED <<lcp_vars, cor_vars>>
    /\ Top.pc = "skeleton"
    /\ \E raw \in SkeletonOutcomes :
         IF raw.k = "raise"
         THEN Return(default_return(Top.line), "no skeleton")
         ELSE IF ~Truthy(raw)
         THEN ReturnRaw(default_return(Top.line), "no skeleton", raw)
         ELSE IF raw.k = "MultiLineString" /\ multi_part(raw)
         THEN ReturnRaw([geom |-> raw, status |-> SUCCESS], "multi part", raw)
         ELSE LET centerline == IF raw.k = "MultiLineString"
                                THEN LineString(raw.parts[1]) ELSE raw
                  trimmed == trim_ends(centerline.pts)
              IN IF ~Truthy(trimmed)
                 THEN ReturnRaw(default_return(Top.line), "trimmed away", raw)
                 ELSE \E snapped \in snap_end_to_end(trimmed, Top.line) :
                        IF centerline_is_valid(snapped, Top.line)
                        THEN ReturnRaw([geom |-> snapped, status |-> SUCCESS],
                                       "valid", raw)
                        ELSE /\ stack' = SetTop([Top EXCEPT !.pc = "regen",
                                                            !.regens = @ + 1])
                             /\ UNCHANGED <<ret, outcome>>

\* regenerate_centerline, lines 329-383: the reference line is halved, the
\* polygon is split along the perpendicular through the midpoint, and
\* find_centerline is called on the first (polygon half, line half) pair.
\* pieces: the number of parts sh_ops.split returns; swap: the outcome of
\* the pairing test of lines 376-381.
Regen_Split ==
    /\ stack # <<>>
    /\ UNCHANGED <<lcp_vars, cor_vars>>
    /\ Top.pc = "regen"
    /\ IF Top.line.k # "LineString"
       THEN \* sh_ops.substring refuses a Point: caught at line 220
            Return([geom |-> Top.line, status |-> REGENERATE_FAILED],
                   "regen exception")
       ELSE LET len == length(Top.line.pts)
                line_1 == substring(Top.line.pts, 0, len \div 2)
                line_2 == substring(Top.line.pts, len \div 2, len)
            IN \E pieces \in 1..2, swap \in BOOLEAN :
                 IF pieces < 2
                 THEN regenerate_failed_split
                 ELSE /\ Len(stack) < MaxDepth
                      /\ stack' = Append(
                            SetTop([Top EXCEPT
                                      !.pc = "wait1", !.kids = @ + 1,
                                      !.line_2 = IF swap THEN line_1 ELSE line_2]),
                            Frame(Polygon, IF swap THEN line_2 ELSE line_1))
                      /\ UNCHANGED <<ret, outcome>>

\* regenerate_centerline, line 384: the first call has returned, the second
\* (polygon half, line half) pair is tried
Regen_Second ==
    /\ stack # <<>>
    /\ UNCHANGED <<lcp_vars, cor_vars>>
    /\ Top.pc = "wait1"
    /\ IF ret.exc
       THEN Return([geom |-> Top.line, status |-> REGENERATE_FAILED],
                   "regen exception")
       ELSE /\ stack' = Append(SetTop([Top EXCEPT !.pc = "wait2", !.kids = @ + 1,
                                                  !.c1 = ret.geom]),
                               Frame(Polygon, Top.line_2))
            /\ UNCHANGED <<ret, outcome>>

\* regenerate_centerline, lines 386-401, and find_centerline, lines 219-222:
\* the second call has returned; the two centerlines are merged
Regen_Merge ==
    /\ stack # <<>>
    /\ UNCHANGED <<lcp_vars, cor_vars>>
    /\ Top.pc = "wait2"
    /\ LET center_line_1 == Top.c1
           center_line_2 == ret.geom
       IN IF ret.exc
          THEN Return([geom |-> Top.line, status |-> REGENERATE_FAILED],
                      "regen exception")
          ELSE IF ~Truthy(center_line_1) \/ ~Truthy(center_line_2)
          THEN regenerate_failed_half
          ELSE IF center_line_1.k # "LineString" \/ center_line_2.k # "LineString"
          THEN \* MultiLineString([...]) of a part that is no line raises
               Return([geom |-> Top.line, status |-> REGENERATE_FAILED],
                      "regen exception")
          ELSE Return([geom |-> linemerge(<<center_line_1.pts, center_line_2.pts>>),
                       status |-> REGENERATE_SUCCESS], "merged")

Next ==
    \/ FC_Begin
    \/ FC_Skeleton
    \/ Regen_Split
    \/ Regen_Second
    \/ Regen_Merge

Spec == Init /\ [][Next]_vars

\* ------------------------------------------------- least-cost-path calls
\* dijkstra is called with or without a feedback object; what
\* feedback.isCanceled() answers is chosen at each call of it, and
\* feedback.setProgress (lines 201-202, 218-237), which changes nothing the
\* search reads, is left out.
\* One call is followed through the solvers in turn: dijkstra on the
\* matrix of block2matrix, dijkstra_np on the matrix of block2matrix_numpy,
\* and find_least_cost_path on the raster itself. A raster with a negative
\* value goes to find_least_cost_path only; a call with several
\* destinations goes to dijkstra only.
InitLCP ==
    /\ stack = <<>>
    /\ ret = NoRet
    /\ outcome = "idle"
    /\ \E sh \in Shapes :
         \E b \in [Cells(sh) -> RasterValues], s \in Sources(sh),
            es \in EndSets(sh), fn \in BOOLEAN, feedback \in BOOLEAN :
           /\ Valid(b) \/ (Cardinality(es) = 1 /\ ~fn /\ ~feedback)
           /\ inp = [shape |-> sh, block |-> b, src |-> s, ends |-> es,
                     find_nearest |-> fn, feedback |-> feedback]
    /\ phase = IF Valid(inp.block) THEN "start" ELSE "lcp"
    /\ LcpFresh
    /\ cor = NoCor
    /\ geo = NoGeo
    /\ seed = NoSeed
    /\ batch = NoBatch
    /\ gui = NoGui

grid_map == block2matrix(inp.block, ras_nodata).matrix

AfterDijkstra == IF Cardinality(inp.ends) = 1 THEN "np" ELSE "done"

TheEnd == CHOOSE e \in inp.ends : TRUE

Node(id) == [t |-> "cell", id |-> id]

\* A slip in the queue: the entry of highest cost comes out first.
EntryLess_reversed(x, y) ==
    \/ CLess(y.cost, x.cost)
    \/ x.cost = y.cost /\ x.node # y.node /\ TupleMin(x.node, y.node) = y.node

\* The order of the (cost, node) tuples in the priority queue
EntryLess(x, y) ==
    \/ CLess(x.cost, y.cost)
    \/ x.cost = y.cost /\ x.node # y.node /\ TupleMin(x.node, y.node) = x.node

\* The walk back along came_from, lines 241-247: the node and its
\* predecessors, with their costs
RECURSIVE traverse(_, _, _)
traverse(cf, csf, traverse_node) ==
    IF traverse_node = PyNone THEN <<>>
    ELSE <<[node |-> traverse_node.id, cost |-> csf[traverse_node.id]]>>
         \o traverse(cf, csf, cf[traverse_node.id])

\* A slip in the cancellation check: made at every pop, stale ones included.
cancel_checked_every_pop(feedback, stale) == feedback

\* dijkstra, lines 209-215: is feedback.isCanceled() called at this pop?
cancel_checked(feedback, stale) == feedback /\ ~stale

\* A slip in the stop test: find_nearest is ignored.
stop_search_all(remaining, find_nearest) == remaining = {}

\* dijkstra, line 259: a destination was reached; is the search over?
stop_search(remaining, find_nearest) == remaining = {} \/ find_nearest

\* dijkstra, lines 172-205
dijkstra_start ==
    /\ phase = "start"
    /\ UNCHANGED <<cl_vars, cor_vars, inp, np_out, lcp_out, sk_out>>
    /\ fb' = [fb EXCEPT !.ret = IF is_valid(grid_map, inp.shape, inp.src)
                                THEN "running" ELSE "result"]
    /\ result' = <<>>
    /\ end_row_cols' = inp.ends
    /\ frontier' = {[cost |-> Cost(0, 0), node |-> inp.src]}
    /\ decided' = {}
    /\ IF ~is_valid(grid_map, inp.shape, inp.src)
       THEN /\ phase' = AfterDijkstra      \* return result
            /\ came_from' = <<>>
            /\ cost_so_far' = <<>>
       ELSE /\ phase' = "dijkstra"
            /\ came_from' = [n \in {inp.src} |-> PyNone]
            /\ cost_so_far' = [n \in {inp.src} |-> Cost(0, 0)]

\* dijkstra, lines 207-268: one turn of the while loop
dijkstra_loop ==
    /\ phase = "dijkstra"
    /\ frontier # {}
    /\ UNCHANGED <<cl_vars, cor_vars, inp, np_out, lcp_out, sk_out>>
    /\ LET top == CHOOSE x \in frontier :
                     \A y \in frontier \ {x} : EntryLess(x, y)
           current_node == top.node
           walk == traverse(came_from, cost_so_far, Node(current_node))
           whole == IF Len(walk) = 1
                    THEN Append(walk, [node |-> inp.src, cost |-> Cost(0, 0)])
                    ELSE walk
           entry == [path |-> Reverse([i \in 1..Len(whole) |-> whole[i].node]),
                     costs |-> Reverse([i \in 1..Len(whole) |-> whole[i].cost]),
                     end |-> current_node]
           arrived == current_node \in end_row_cols
           better == {nex \in neighbors(grid_map, inp.shape, current_node) :
                        LET new_cost == CAdd(cost_so_far[current_node],
                                             simple_cost(grid_map, current_node, nex))
                        IN \/ nex \notin DOMAIN cost_so_far
                           \/ CLess(new_cost, cost_so_far[nex])}
           new_cost(nex) == CAdd(cost_so_far[current_node],
                                 simple_cost(grid_map, current_node, nex))
           stale == current_node \in decided
           check == cancel_checked(inp.feedback, stale)
       IN \E isCanceled \in (IF check THEN BOOLEAN ELSE {FALSE}) :
          IF isCanceled
          THEN /\ phase' = "canceled"                 \* return None
               /\ fb' = [checks |-> fb.checks + 1, canceled |-> TRUE,
                         ret |-> "None"]
               /\ frontier' = frontier \ {top}
               /\ decided' = decided \cup {current_node}
               /\ UNCHANGED <<came_from, cost_so_far, end_row_cols, result>>
          ELSE IF stale
          THEN /\ frontier' = frontier \ {top}
               /\ fb' = [fb EXCEPT !.checks = @ + (IF check THEN 1 ELSE 0)]
               /\ UNCHANGED <<phase, came_from, cost_so_far, decided,
                              end_row_cols, result>>
          ELSE /\ decided' = decided \cup {current_node}
               /\ result' = IF arrived THEN Append(result, entry) ELSE result
               /\ end_row_cols' = end_row_cols \ {current_node}
               /\ fb' = [fb EXCEPT
                           !.checks = @ + (IF check THEN 1 ELSE 0),
                           !.ret = IF arrived /\ stop_search(end_row_cols',
                                                             inp.find_nearest)
                                   THEN "result" ELSE @]
               /\ IF arrived /\ stop_search(end_row_cols', inp.find_nearest)
                  THEN /\ phase' = AfterDijkstra      \* break, return result
                       /\ frontier' = frontier \ {top}
                       /\ UNCHANGED <<came_from, cost_so_far>>
                  ELSE /\ phase' = phase
                       /\ cost_so_far' =
                            [n \in DOMAIN cost_so_far \cup better |->
                               IF n \in better THEN new_cost(n)
                               ELSE cost_so_far[n]]
                       /\ frontier' = (frontier \ {top}) \cup
                            {[cost |-> new_cost(n), node |-> n] : n \in better}
                       /\ came_from' =
                            [n \in DOMAIN came_from \cup better |->
                               IF n \in better THEN Node(current_node)
                               ELSE came_from[n]]

\* dijkstra, lines 207 and 270: the queue is empty, the result is returned
dijkstra_return ==
    /\ phase = "dijkstra"
    /\ frontier = {}
    /\ phase' = AfterDijkstra
    /\ fb' = [fb EXCEPT !.ret = "result"]
    /\ UNCHANGED <<cl_vars, cor_vars, inp, frontier, came_from, cost_so_far, decided,
                   end_row_cols, result, np_out, lcp_out, sk_out>>

\* dijkstra_np on the same call
call_dijkstra_np ==
    /\ phase = "np"
    /\ \E o \in dijkstra_np(inp.src, TheEnd,
                            block2matrix_numpy(inp.block, ras_nodata).matrix,
                            inp.shape) :
          np_out' = [set |-> TRUE, none |-> o.none, result |-> o.result,
                     matrix |-> o.matrix]
    /\ phase' = "lcp"
    /\ UNCHANGED <<cl_vars, cor_vars, inp, frontier, came_from, cost_so_far, decided,
                   end_row_cols, result, lcp_out, sk_out, fb>>

\* find_least_cost_path on the same call: the seed line runs from the
\* source cell's seed point to the destination cell's
call_find_least_cost_path ==
    /\ phase = "lcp"
    /\ \E o \in find_least_cost_path(inp.block, inp.shape, ras_nodata,
                                     <<SeedPoint(inp.src), SeedPoint(TheEnd)>>) :
          lcp_out' = [set |-> TRUE, refused |-> o.refused, path |-> o.path,
                      lc_path |-> o.lc_path, start |-> o.start, end |-> o.end]
    /\ phase' = "sk"
    /\ UNCHANGED <<cl_vars, cor_vars, inp, frontier, came_from, cost_so_far, decided,
                   end_row_cols, result, np_out, sk_out, fb>>

\* find_least_cost_path_skimage on the same call. axes: the number of
\* dimensions of the cost_clip array handed in (2: rows x columns; 3 and 4:
\* with one and two leading axes of length one).
call_find_least_cost_path_skimage ==
    /\ phase = "sk"
    /\ \E axes \in ClipAxes :
         \E o \in find_least_cost_path_skimage(
                     inp.block, axes, inp.shape,
                     <<SeedPoint(inp.src), SeedPoint(TheEnd)>>) :
            sk_out' = [set |-> TRUE, axes |-> axes, exc |-> FALSE,
                       path |-> o.path, lc_path |-> o.lc_path]
    /\ phase' = "done"
    /\ UNCHANGED <<cl_vars, cor_vars, inp, frontier, came_from, cost_so_far, decided,
                   end_row_cols, result, np_out, lcp_out, fb>>

NextLCP ==
    \/ dijkstra_start
    \/ dijkstra_loop
    \/ dijkstra_return
    \/ call_dijkstra_np
    \/ call_find_least_cost_path
    \/ call_find_least_cost_path_skimage

SpecLCP == InitLCP /\ [][NextLCP]_vars

\* ------------------------------------------- find_corridor_polygon calls
InitCorridor ==
    /\ stack = <<>>
    /\ ret = NoRet
    /\ outcome = "idle"
    /\ inp = NoInput
    /\ phase = "idle"
    /\ LcpFresh
    /\ \E r \in CorridorRasters :
         cor = [NoCor EXCEPT !.corridor_thresh = r]
    /\ geo = NoGeo
    /\ seed = NoSeed
    /\ batch = NoBatch
    /\ gui = NoGui

\* find_corridor_polygon(corridor_thresh, in_transform, line_gpd)
call_find_corridor_polygon ==
    /\ ~cor.called
    /\ cor.corridor_thresh # <<>>
    /\ cor' = [called |-> TRUE,
               corridor_thresh |-> cor.corridor_thresh,
               traced |-> traced_cells(cor.corridor_thresh),
               regions |-> retained_regions(cor.corridor_thresh),
               geometry |-> find_corridor_polygon(
                               retained_regions(cor.corridor_thresh))]
    /\ UNCHANGED <<cl_vars, lcp_vars, geo, seed, batch, gui>>

NextCorridor == call_find_corridor_polygon

SpecCorridor == InitCorridor /\ [][NextCorridor]_vars

\* ------------------------- calls of centerline_is_valid, snap_end_to_end
\* Lines handed to the two functions: two or three vertices on Coords, in
\* any order (a line may turn back)
AnyLines == {LineString(pts) : pts \in [1..2 -> Coords] \cup [1..3 -> Coords]}

\* Reference lines with end points
EndedRefLines == {r \in RefLines : Truthy(r)}

InitGeo ==
    /\ stack = <<>>
    /\ ret = NoRet
    /\ outcome = "idle"
    /\ inp = NoInput
    /\ phase = "idle"
    /\ LcpFresh
    /\ cor = NoCor
    /\ seed = NoSeed
    /\ batch = NoBatch
    /\ gui = NoGui
    /\ \E fn \in {"centerline_is_valid", "snap_end_to_end"},
          reference \in EndedRefLines,
          line \in AnyLines \cup {NoneGeom, LineString(<<>>)} :
         /\ fn = "snap_end_to_end" => line \in AnyLines
         /\ geo = [NoGeo EXCEPT !.fn = fn, !.line = line,
                                !.reference = reference]

\* centerline_is_valid(centerline, input_line)
call_centerline_is_valid ==
    /\ geo.fn = "centerline_is_valid"
    /\ ~geo.called
    /\ geo' = [geo EXCEPT !.called = TRUE,
                          !.valid = centerline_is_valid(geo.line, geo.reference)]
    /\ UNCHANGED <<cl_vars, lcp_vars, cor, seed, batch, gui>>

\* snap_end_to_end(in_line, line_reference), and once more on its result
call_snap_end_to_end ==
    /\ geo.fn = "snap_end_to_end"
    /\ ~geo.called
    /\ \E snapped \in snap_end_to_end(geo.line, geo.reference) :
         \E again \in snap_end_to_end(snapped, geo.reference) :
            geo' = [geo EXCEPT !.called = TRUE, !.snapped = snapped,
                              !.again = again]
    /\ UNCHANGED <<cl_vars, lcp_vars, cor, seed, batch, gui>>

NextGeo ==
    \/ call_centerline_is_valid
    \/ call_snap_end_to_end

SpecGeo == InitGeo /\ [][NextGeo]_vars

\* ------------------------------------------------------ SeedLine.compute
InitSeed ==
    /\ stack = <<>>
    /\ ret = NoRet
    /\ outcome = "idle"
    /\ inp = NoInput
    /\ phase = "idle"
    /\ LcpFresh
    /\ cor = NoCor
    /\ geo = NoGeo
    /\ batch = NoBatch
    /\ gui = NoGui
    /\ \E line \in {r \in RefLines : Truthy(r)} :
         seed = [NoSeed EXCEPT !.pc = "compute", !.line = line]

\* SeedLine.compute, lines 415-475: the least-cost path is searched, the
\* corridor polygon is traced, find_centerline is called
SeedLine_compute ==
    /\ seed.pc = "compute"
    /\ \E clip_1 \in ClipOutcomes, lc_path \in LcPathOutcomes,
          clip_2 \in ClipOutcomes :
         IF clip_1 = "raise"
         THEN \* lines 421-422 stand outside every try
              /\ seed' = [seed EXCEPT !.pc = "done", !.returned = "exception",
                                      !.raised_in = "first clip"]
              /\ UNCHANGED cl_vars
         ELSE IF lc_path.k = "raise"
         THEN \* return default_return                      (lines 434-436)
              /\ seed' = [seed EXCEPT !.pc = "done", !.returned = "default"]
              /\ UNCHANGED cl_vars
         ELSE IF ~Truthy(lc_path)
         THEN \* len(lc_path_coords) < 2                     (lines 446-449)
              /\ seed' = [seed EXCEPT !.pc = "done", !.returned = "default",
                                      !.lc_path = lc_path, !.status = FAILED]
              /\ UNCHANGED cl_vars
         ELSE IF clip_2 = "raise"
         THEN \* lines 452-473 stand outside every try
              /\ seed' = [seed EXCEPT !.pc = "done", !.returned = "exception",
                                      !.lc_path = lc_path,
                                      !.raised_in = "second clip"]
              /\ UNCHANGED cl_vars
         ELSE \E corridor_thresh_cl \in CorridorRasters :
                LET poly == find_corridor_polygon(
                                retained_regions(corridor_thresh_cl))
                IN /\ seed' = [seed EXCEPT !.pc = "find_centerline",
                                           !.lc_path = lc_path]
                   /\ stack' = <<Frame(poly, lc_path)>>
                   /\ outcome' = "running"
                   /\ UNCHANGED ret
    /\ UNCHANGED <<lcp_vars, cor, geo, batch, gui>>

\* SeedLine.compute, lines 475-486: find_centerline has returned or raised
SeedLine_compute_end ==
    /\ seed.pc = "find_centerline"
    /\ stack = <<>>
    /\ IF outcome = "raised"
       THEN seed' = [seed EXCEPT !.pc = "done", !.returned = "exception",
                                 !.raised_in = "find_centerline"]
       ELSE seed' = [seed EXCEPT !.pc = "done", !.status = ret.status,
                                 !.centerline = ret.geom]
    /\ UNCHANGED <<cl_vars, lcp_vars, cor, geo, batch, gui>>

NextSeed ==
    \/ SeedLine_compute
    \/ SeedLine_compute_end
    \/ FC_Begin
    \/ FC_Skeleton
    \/ Regen_Split
    \/ Regen_Second
    \/ Regen_Merge

SpecSeed == InitSeed /\ [][NextSeed]_vars

\* ------------------------------------------------------ find_centerlines
\* What find_centerline may return for a row: (centerline, status)
CenterlineResults ==
    {[geom |-> LineString(<<Step, 3 * Step>>), status |-> SUCCESS],
     [geom |-> MultiLineString(<<(<<0, Step>>), (<<2 * Step, 3 * Step>>)>>),
      status |-> SUCCESS],
     [geom |-> LineString(<<Step, 5 * Step>>), status |-> FAILED],
     [geom |-> LineString(<<Step, 2 * Step, 3 * Step>>),
      status |-> REGENERATE_SUCCESS],
     [geom |-> NoneGeom, status |-> REGENERATE_SUCCESS],
     [geom |-> LineString(<<Step, 5 * Step>>), status |-> REGENERATE_FAILED]}

\* A row of poly_gpd: its OLnFID, whether line_seg has a line of that
\* OLnFID (and OLnSEG); the columns centerline and status are absent
PolyRow(id, matched) ==
    [OLnFID |-> id, matched |-> matched, processed |-> FALSE,
     centerline |-> NoneGeom, status |-> 0, returned_status |-> 0]

InitBatch ==
    /\ stack = <<>>
    /\ ret = NoRet
    /\ outcome = "idle"
    /\ inp = NoInput
    /\ phase = "idle"
    /\ LcpFresh
    /\ cor = NoCor
    /\ geo = NoGeo
    /\ seed = NoSeed
    /\ gui = NoGui
    /\ \E n \in 1..MaxRows :
         \E matched \in [1..n -> BOOLEAN] :
            batch = [NoBatch EXCEPT
                       !.pc = "pair",
                       !.poly_gpd = [i \in 1..n |-> PolyRow(i, matched[i])]]

\* The rows of poly_gpd before the first one whose lookup in line_seg
\* raises: .iloc[0] of an empty selection is an IndexError, and the try
\* of lines 295-309 encloses the whole loop
RECURSIVE paired(_)
paired(rows) ==
    IF rows = <<>> THEN <<>>
    ELSE IF ~rows[1].matched THEN <<>>
    ELSE <<rows[1]>> \o paired(Tail(rows))

\* find_centerlines, lines 292-309: rows are paired with their paths
find_centerlines_pair ==
    /\ batch.pc = "pair"
    /\ batch' = [batch EXCEPT !.pc = "pool",
                              !.rows_and_paths = paired(batch.poly_gpd)]
    /\ UNCHANGED <<cl_vars, lcp_vars, cor, geo, seed, gui>>

\* process_single_centerline(row_and_path), lines 269-288, run by the pool
\* of line 311 on the pairs in any order
process_single_centerline ==
    /\ batch.pc = "pool"
    /\ \E i \in 1..Len(batch.rows_and_paths), r \in CenterlineResults :
         /\ ~batch.rows_and_paths[i].processed
         /\ batch' = [batch EXCEPT
                        !.rows_and_paths[i].processed = TRUE,
                        !.rows_and_paths[i].centerline = r.geom,
                        !.rows_and_paths[i].returned_status = r.status]
    /\ UNCHANGED <<cl_vars, lcp_vars, cor, geo, seed, gui>>

\* find_centerlines, lines 311-314: pd.concat of the rows the pool gave;
\* of an empty list it raises ValueError
find_centerlines_concat ==
    /\ batch.pc = "pool"
    /\ \A i \in 1..Len(batch.rows_and_paths) :
         batch.rows_and_paths[i].processed
    /\ IF batch.rows_and_paths = <<>>
       THEN batch' = [batch EXCEPT !.pc = "raised"]
       ELSE batch' = [batch EXCEPT !.pc = "returned",
                                   !.centerline_gpd = batch.rows_and_paths]
    /\ UNCHANGED <<cl_vars, lcp_vars, cor, geo, seed, gui>>

NextBatch ==
    \/ find_centerlines_pair
    \/ process_single_centerline
    \/ find_centerlines_concat

SpecBatch == InitBatch /\ [][NextBatch]_vars

\* -------------------------------------------------------------- MainWindow
InitGui ==
    /\ stack = <<>>
    /\ ret = NoRet
    /\ outcome = "idle"
    /\ inp = NoInput
    /\ phase = "idle"
    /\ LcpFresh
    /\ cor = NoCor
    /\ geo = NoGeo
    /\ seed = NoSeed
    /\ batch = NoBatch
    /\ gui = [NoGui EXCEPT !.on = TRUE]

\* start_process, lines 617-658, on a click on Run. With no process a
\* QProcess is made and started (handle_state disables the button); then
\* the while loop of lines 652-658 terminates the process when cancel_op
\* is set, and clears the flag
start_process ==
    /\ gui.on
    /\ gui.btn_run
    /\ gui.starts < MaxEvents
    /\ LET created == gui.process = "None"
           started == IF created THEN "running" ELSE gui.process
       IN gui' = [gui EXCEPT
                    !.starts = @ + 1,
                    !.processes = IF created THEN @ + 1 ELSE @,
                    !.btn_run = IF created THEN FALSE ELSE @,
                    !.cancel_op = FALSE,
                    !.process = IF gui.cancel_op THEN "ending" ELSE started,
                    !.spoiled = @ \/ (created /\ gui.cancel_op)]
    /\ UNCHANGED <<cl_vars, lcp_vars, cor, geo, seed, batch>>

\* stop_process, lines 660-664, on a click on Cancel
stop_process ==
    /\ gui.on
    /\ gui.stops < MaxEvents
    /\ gui' = [gui EXCEPT
                 !.stops = @ + 1,
                 !.cancel_op = TRUE,
                 !.process = IF @ = "None" THEN @ ELSE "ending"]
    /\ UNCHANGED <<cl_vars, lcp_vars, cor, geo, seed, batch>>

\* The tool process has ended, of itself or killed: handle_state, lines
\* 684-694, for the state NotRunning, and process_finished, lines 698-702
process_finished ==
    /\ gui.on
    /\ gui.process # "None"
    /\ gui' = [gui EXCEPT !.process = "None", !.processes = @ - 1,
                          !.btn_run = TRUE]
    /\ UNCHANGED <<cl_vars, lcp_vars, cor, geo, seed, batch>>

NextGui ==
    \/ start_process
    \/ stop_process
    \/ process_finished

SpecGui == InitGui /\ [][NextGui]_vars

\* ================================================================ claims

\* C1: find_centerline is total: whatever the polygon and the reference
\* line, no exception reaches the caller of the outermost call.
C1_NoExceptionPropagates == outcome # "raised"

\* C2: every (geometry, status) pair returned by find_centerline for a
\* usable reference line has a usable line: the geometry is neither None
\* nor empty, whatever the status and whatever regenerate_centerline
\* returned.
C2_ReturnedLineUsable ==
    (ret.set /\ Truthy(ret.line)) =>
        (ret.status \in {SUCCESS, FAILED, REGENERATE_SUCCESS, REGENERATE_FAILED}
         /\ Truthy(ret.geom))

\* C3: when recovery fails (the polygon does not split in two, or a half
\* has no centerline) find_centerline returns the reference line with
\* REGENERATE_FAILED, and REGENERATE_SUCCESS is returned only for two
\* half centerlines that were merged.
C3_RecoveryFailureReported ==
    ret.set =>
        /\ ret.how \in {"split failed", "half missing"} =>
               (ret.geom = ret.line /\ ret.status = REGENERATE_FAILED)
        /\ ret.status = REGENERATE_SUCCESS => ret.how = "merged"

\* C4 (as claimed): a find_centerline call made by regenerate_centerline
\* never itself invokes regenerate_centerline.
C4_OneLevelOnly ==
    /\ \A i \in 2..Len(stack) : stack[i].regens = 0
    /\ (ret.set /\ ret.depth >= 2) => ret.regens = 0

\* C4 (amended): recovery is not limited to one level, but every
\* find_centerline call invokes regenerate_centerline at most once, that
\* regenerate_centerline calls find_centerline at most twice, and a call
\* returns a REGENERATE_* status exactly when it has invoked
\* regenerate_centerline (once, without a retry).
C4_OneRegenerationPerCall ==
    /\ \A i \in 1..Len(stack) :
          /\ stack[i].regens <= 1
          /\ stack[i].kids <= 2
          /\ stack[i].kids > 0 => stack[i].regens = 1
    /\ ret.set =>
          /\ ret.status \in {REGENERATE_SUCCESS, REGENERATE_FAILED}
                => ret.regens = 1
          /\ ret.status \in {SUCCESS, FAILED} => ret.regens = 0

\* C4 witness: a call made by regenerate_centerline has itself invoked
\* regenerate_centerline and returned a REGENERATE_* status.
C4_Witness ==
    /\ ret.set
    /\ ret.depth >= 2
    /\ ret.regens = 1
    /\ ret.status \in {REGENERATE_SUCCESS, REGENERATE_FAILED}

\* C5: whenever find_centerline returns FAILED or REGENERATE_FAILED the
\* geometry is the reference line it was given; a corridor extraction
\* with no region (find_corridor_polygon gives None) ends in
\* (reference line, FAILED).
C5_FailureReturnsReferenceLine ==
    ret.set =>
        /\ ret.status \in {FAILED, REGENERATE_FAILED} => ret.geom = ret.line
        /\ ret.poly = find_corridor_polygon(<<>>) =>
               (ret.geom = ret.line /\ ret.status = FAILED)

\* C5 witness: no corridor region was found and the call has returned the
\* (non-empty) reference line with FAILED.
C5_Witness ==
    /\ ret.set
    /\ ret.poly = find_corridor_polygon(<<>>)
    /\ Truthy(ret.line)
    /\ ret.status = FAILED
    /\ ret.geom = ret.line

\* ------------------------------------------- claims on least-cost paths
\* The cost model the claims are stated in, on the raster itself: a cell is
\* passable unless it holds nodata; a step costs the mean of the two cell
\* values, times sqrt(2) when diagonal (costs are kept doubled, see Cost).
PassableCells == {c \in Cells(inp.shape) : inp.block[c].v # ras_nodata}

Diagonal(c, d) == c[1] # d[1] /\ c[2] # d[2]

RECURSIVE PathCost(_)
PathCost(p) ==
    IF Len(p) < 2 THEN Cost(0, 0)
    ELSE LET mean2 == inp.block[p[1]].v + inp.block[p[2]].v
         IN CAdd(IF Diagonal(p[1], p[2]) THEN Cost(0, mean2) ELSE Cost(mean2, 0),
                 PathCost(Tail(p)))

\* The 8-connected paths of passable cells from the source to d
PassablePaths(d) ==
    IF inp.src \in PassableCells /\ d \in PassableCells
    THEN SimplePaths(PassableCells, inp.src, d)
    ELSE {}

IsMinimal(cost, d) == \A q \in PassablePaths(d) : ~CLess(PathCost(q), cost)

HasNegative == \E c \in DOMAIN inp.block :
                  inp.block[c].v < 0 /\ inp.block[c].v # ras_nodata

\* C6: on a valid grid, source = destination = s (passable) gives the path
\* [s, s] of zero cost from dijkstra, and the strategy find_least_cost_path
\* uses gives [s, s] too and a line is built from it.
C6_CoincidingEndsGiveTwoPointPath ==
    (/\ phase = "done"
     /\ inp.ends = {inp.src}
     /\ inp.src \in Cells(inp.shape)
     /\ Valid(inp.block)
     /\ inp.block[inp.src].v # ras_nodata)
    => /\ Len(result) = 1
       /\ result[1].path = <<inp.src, inp.src>>
       /\ result[1].costs = <<Cost(0, 0), Cost(0, 0)>>
       /\ ~np_out.none
       /\ np_out.result[1].path = <<inp.src, inp.src>>
       /\ lcp_out.path = <<inp.src, inp.src>>
       /\ lcp_out.lc_path # PyNone

\* C7: when the source cell is impassable (nodata or outside the grid),
\* dijkstra and dijkstra_np both return an empty result without searching.
C7_ImpassableSourceGivesNoPath ==
    (/\ np_out.set
     /\ Valid(inp.block)
     /\ (inp.src \notin Cells(inp.shape) \/ inp.block[inp.src].v = ras_nodata))
    => /\ result = <<>>
       /\ decided = {}
       /\ np_out.none \/ np_out.result = <<>>
       /\ np_out.matrix = block2matrix_numpy(inp.block, ras_nodata).matrix

\* C8: a raster holding a negative value that is not nodata is refused by
\* find_least_cost_path: the error is reported and no path is returned.
C8_NegativeCostRefused ==
    (lcp_out.set /\ HasNegative)
    => /\ lcp_out.refused
       /\ lcp_out.path = <<>>
       /\ lcp_out.lc_path = PyNone

\* C9: on a valid grid every path dijkstra returns runs from the source to
\* its destination over passable, 8-connected cells, its final cumulative
\* cost is the cost of that path, and no passable 8-connected path between
\* the two cells costs less; a reachable destination gets a path (with
\* find_nearest, one of the reachable destinations does).
C9_DijkstraPathIsLeastCost ==
    /\ \A i \in 1..Len(result) :
         LET r == result[i]
             last == r.costs[Len(r.costs)]
         IN /\ r.end \in inp.ends
            /\ Len(r.costs) = Len(r.path)
            /\ IF r.end = inp.src
               THEN r.path = <<inp.src, inp.src>>
               ELSE r.path \in PassablePaths(r.end)
            /\ last = (IF r.end = inp.src THEN Cost(0, 0) ELSE PathCost(r.path))
            /\ IsMinimal(last, r.end)
    /\ (phase \in {"np", "lcp", "done"} /\ Valid(inp.block))
       => LET found == {result[i].end : i \in 1..Len(result)}
              reachable == {d \in inp.ends : PassablePaths(d) # {}}
          IN IF inp.find_nearest
             THEN reachable # {} => found \cap reachable # {}
             ELSE found = reachable

\* C9 witness: dijkstra has returned a path that takes two steps between
\* neighbouring cells because the direct step costs more.
C9_Witness ==
    /\ phase = "done"
    /\ Len(result) = 1
    /\ Len(result[1].path) = 3
    /\ Adjacent(inp.src, result[1].end)
    /\ CLess(result[1].costs[3], PathCost(<<inp.src, result[1].end>>))
    /\ IsMinimal(result[1].costs[3], result[1].end)

\* C10: on a grid without nodata and with distinct source and destination,
\* the path of dijkstra_np costs, on the raster, what the path of dijkstra
\* costs.
C10_StrategiesAgreeOnCost ==
    (/\ np_out.set
     /\ Valid(inp.block)
     /\ PassableCells = Cells(inp.shape)
     /\ inp.src \in Cells(inp.shape)
     /\ inp.ends # {inp.src})
    => /\ Len(result) = 1
       /\ ~np_out.none
       /\ PathCost(np_out.result[1].path) = PathCost(result[1].path)

\* A returned line keeps the seed line's end points and has the cell centres
\* of the grid path in between
EndsKept(o) ==
    o.lc_path # PyNone =>
       LET pts == o.lc_path.pts
       IN /\ Len(pts) = Len(o.path)
          /\ pts[1] = SeedPoint(inp.src)
          /\ pts[Len(pts)] = SeedPoint(TheEnd)
          /\ \A i \in 2..(Len(pts) - 1) : pts[i] = xy(o.path[i])

\* C11: on a raster without negative values other than nodata, with both
\* seed points in passable cells, every least-cost path line returned, by
\* find_least_cost_path and by find_least_cost_path_skimage alike, starts
\* exactly at the seed line's start point and ends exactly at its end point;
\* the points in between are the centres of the cells of the grid path, in
\* order.
C11_LineEndsAreSeedEnds ==
    (/\ Valid(inp.block)
     /\ inp.src \in PassableCells
     /\ inp.ends \subseteq PassableCells)
    => /\ lcp_out.set => EndsKept(lcp_out)
       /\ sk_out.set => EndsKept(sk_out)

\* The least cost of a passable 8-connected path from the source to d
\* (d reachable)
MinCostTo(d) ==
    LET ps == PassablePaths(d)
        best == CHOOSE p \in ps : \A q \in ps : ~CLess(PathCost(q), PathCost(p))
    IN PathCost(best)

Reachable == {d \in inp.ends : PassablePaths(d) # {}}

FinalCost(i) == result[i].costs[Len(result[i].costs)]

\* C12: dijkstra with destination cells. With find_nearest the search runs
\* only while no destination is settled and the result holds exactly one
\* path, to a destination of least cost (none when no destination can be
\* reached); without it the search runs only while a destination is still
\* missing and the result holds exactly one path per reachable destination,
\* in order of non-decreasing cost.
C12_NearestOrAllDestinations ==
    /\ phase = "dijkstra" =>
         /\ end_row_cols # {}
         /\ inp.find_nearest => result = <<>>
         /\ {result[i].end : i \in 1..Len(result)} = inp.ends \ end_row_cols
         /\ inp.ends \ end_row_cols \subseteq decided
    /\ (phase \in {"np", "lcp", "sk", "done"} /\ Valid(inp.block)) =>
         /\ \A i, j \in 1..Len(result) :
              /\ i # j => result[i].end # result[j].end
              /\ i < j => ~CLess(FinalCost(j), FinalCost(i))
         /\ IF inp.find_nearest
            THEN /\ Len(result) = (IF Reachable = {} THEN 0 ELSE 1)
                 /\ Len(result) = 1 =>
                      /\ result[1].end \in Reachable
                      /\ \A d \in Reachable :
                           ~CLess(MinCostTo(d), FinalCost(1))
            ELSE {result[i].end : i \in 1..Len(result)} = Reachable

\* C12 witness: two reachable destinations of different cost, neither the
\* source; the search has ended with the path to the cheaper one only
\* (find_nearest) or with both paths, the cheaper first.
C12_Witness ==
    /\ phase = "done"
    /\ Cardinality(inp.ends) = 2
    /\ Reachable = inp.ends
    /\ inp.src \notin inp.ends
    /\ \E d, e \in inp.ends :
         /\ CLess(MinCostTo(d), MinCostTo(e))
         /\ result[1].end = d
         /\ IF inp.find_nearest THEN Len(result) = 1
            ELSE Len(result) = 2 /\ result[2].end = e

\* C13: in dijkstra the cancellation signal is read once per settled node
\* and never at a stale pop (never at all without a feedback object); when
\* it is set, dijkstra returns None at once, whatever paths it had found,
\* and the step that reads it records no path and relaxes nothing.
C13_CancelCheckedPerSettledNode ==
    /\ [](/\ fb.checks = (IF inp.feedback THEN Cardinality(decided) ELSE 0)
          /\ fb.canceled <=> fb.ret = "None"
          /\ fb.canceled => phase = "canceled"
          /\ phase = "canceled" => fb.canceled
          /\ phase = "dijkstra" => fb.ret = "running")
    /\ [][fb'.canceled /\ ~fb.canceled =>
            /\ result' = result
            /\ cost_so_far' = cost_so_far
            /\ came_from' = came_from
            /\ frontier' \subseteq frontier]_vars

\* C13 witness: dijkstra was cancelled at its third settled node or later,
\* after it had found a path, and returned None.
C13_Witness ==
    /\ phase = "canceled"
    /\ fb.ret = "None"
    /\ Len(result) >= 1
    /\ fb.checks = Cardinality(decided)
    /\ fb.checks >= 3

\* ------------------------------------- claims on find_corridor_polygon
\* C14: whenever at least one region is retained, connected to the others
\* or not, find_corridor_polygon returns a single Polygon, never a
\* MultiPolygon.
C14_SinglePolygonReturned ==
    (cor.called /\ cor.regions # <<>>) => cor.geometry = Polygon

\* C15: the cells find_corridor_polygon traces into polygons are exactly the
\* cells holding 1 in the corridor raster it receives; cells holding 0 are
\* outside.
C15_ValueOneIsInside ==
    cor.called =>
       cor.traced = {c \in DOMAIN cor.corridor_thresh :
                        cor.corridor_thresh[c] = 1}

\* C18: a multi-part result of get_centerline with more than one segment is
\* returned unchanged with status SUCCESS, without trimming, snapping,
\* validity check or regeneration; one with exactly one segment is processed
\* as the line that segment is; one with no segment gives FAILED. (ret.raw
\* is the multi-part result behind a return made without regeneration.)
C18_MultiPartReturnedAsIs ==
    (ret.set /\ ret.raw.k = "MultiLineString") =>
       LET n == Len(ret.raw.parts)
           part == LineString(ret.raw.parts[1])
           trimmed == trim_ends(part.pts)
       IN /\ n > 1 => /\ ret.geom = ret.raw
                      /\ ret.status = SUCCESS
                      /\ ret.regens = 0
          /\ n = 0 => /\ ret.status = FAILED
                      /\ ret.geom = ret.line
          /\ n = 1 =>
               /\ ret.geom # ret.raw
               /\ ~Truthy(trimmed) => ret.status = FAILED /\ ret.geom = ret.line
               /\ Truthy(trimmed) => ret.status # FAILED
               /\ ret.status = SUCCESS =>
                    /\ ret.geom \in snap_end_to_end(trimmed, ret.line)
                    /\ centerline_is_valid(ret.geom, ret.line)
                    /\ ret.regens = 0

\* C18 witness: a call inside a regeneration got two separate segments and
\* returned them as they were, with SUCCESS.
C18_Witness ==
    /\ ret.set
    /\ ret.depth = 2
    /\ ret.raw.k = "MultiLineString"
    /\ Len(ret.raw.parts) = 2
    /\ ret.geom = ret.raw
    /\ ret.status = SUCCESS

\* C24: a solve call leaves every cell cost of the grid it was given
\* unchanged, the source and destination cells included.
C24_GridUnchangedBySolve ==
    np_out.set =>
       np_out.matrix = block2matrix_numpy(inp.block, ras_nodata).matrix

\* The entry frontier.get() gives next
Popped == CHOOSE x \in frontier : \A y \in frontier \ {x} : EntryLess(x, y)

\* The least cost of a passable 8-connected path from the source to cell n
MinCostOfCell(n) == IF n = inp.src THEN Cost(0, 0) ELSE MinCostTo(n)

\* C25: lazy deletion in dijkstra with non-negative costs. A cell is decided
\* once: the pop of an already-decided cell changes nothing but the queue.
\* A decided cell holds its least cost from the source, and its cost_so_far
\* and came_from entries never change afterwards.
C25_LazyDeletion ==
    /\ [](\A n \in decided :
             /\ n \in DOMAIN cost_so_far
             /\ cost_so_far[n] = MinCostOfCell(n))
    /\ [][phase = "dijkstra" =>
            /\ \A n \in decided :
                 /\ n \in decided'
                 /\ cost_so_far'[n] = cost_so_far[n]
                 /\ came_from'[n] = came_from[n]
            /\ IF frontier = {} THEN decided' = decided
               ELSE decided' \ decided \subseteq {Popped.node}
            /\ (frontier # {} /\ Popped.node \in decided) =>
                 /\ decided' = decided
                 /\ cost_so_far' = cost_so_far
                 /\ came_from' = came_from
                 /\ result' = result
                 /\ frontier' = frontier \ {Popped}]_vars

\* C25 witness: three cells are decided and the entry at the head of the
\* queue is a stale one: it belongs to a decided cell and carries a cost
\* above the cell's final cost.
C25_Witness ==
    /\ phase = "dijkstra"
    /\ frontier # {}
    /\ Cardinality(decided) >= 3
    /\ Popped.node \in decided
    /\ CLess(cost_so_far[Popped.node], Popped.cost)

\* A (path, costs, end) entry is well formed: from the source to its
\* destination by steps between 8-neighbours inside the grid, no cell twice
\* (but for [source, source]), one cost per cell, the costs being the
\* cumulative costs of the path, from 0 and never decreasing
WellFormed(r) ==
    /\ Len(r.path) >= 1
    /\ r.path[1] = inp.src
    /\ r.path[Len(r.path)] = r.end
    /\ r.end \in inp.ends
    /\ \A i \in 1..Len(r.path) : _in_bounds(inp.shape, r.path[i])
    /\ \/ r.path = <<inp.src, inp.src>>
       \/ /\ \A i \in 1..(Len(r.path) - 1) : Adjacent(r.path[i], r.path[i + 1])
          /\ \A i, j \in 1..Len(r.path) : i # j => r.path[i] # r.path[j]
    /\ Len(r.costs) = Len(r.path)
    /\ r.costs[1] = Cost(0, 0)
    /\ \A i \in 1..(Len(r.costs) - 1) : ~CLess(r.costs[i + 1], r.costs[i])
    /\ \A i \in 1..Len(r.path) :
         r.costs[i] = (IF r.path = <<inp.src, inp.src>> THEN Cost(0, 0)
                       ELSE PathCost(SubSeq(r.path, 1, i)))

\* The paths dijkstra returns are well formed (the half of C26 that holds)
DijkstraPathsWellFormed ==
    Valid(inp.block) => \A i \in 1..Len(result) : WellFormed(result[i])

\* C26: every path the solver returns is well formed, from dijkstra and
\* from dijkstra_np alike.
C26_PathsWellFormed ==
    Valid(inp.block) =>
       /\ \A i \in 1..Len(result) : WellFormed(result[i])
       /\ (np_out.set /\ ~np_out.none) =>
             \A i \in 1..Len(np_out.result) : WellFormed(np_out.result[i])

\* C27: no returned path enters an impassable (nodata) cell, whichever
\* grid construction and solver strategy made it.
C27_NoPathThroughImpassable ==
    Valid(inp.block) =>
       /\ \A i \in 1..Len(result) :
            SeqRange(result[i].path) \subseteq PassableCells
       /\ (np_out.set /\ ~np_out.none) =>
             \A i \in 1..Len(np_out.result) :
                SeqRange(np_out.result[i].path) \subseteq PassableCells
       /\ lcp_out.set => SeqRange(lcp_out.path) \subseteq PassableCells

\* C29: after the regulation of the end points in find_least_cost_path the
\* start and end cells handed to the solver lie inside the matrix.
C29_RegulatedCellsInsideMatrix ==
    (lcp_out.set /\ ~lcp_out.refused) =>
       /\ _in_bounds(inp.shape, lcp_out.start)
       /\ _in_bounds(inp.shape, lcp_out.end)

\* geometry.length of a line or of a MultiLineString of two parts, 0 for
\* no geometry
geom_length(g) ==
    CASE g.k = "LineString" -> length(g.pts)
      [] g.k = "MultiLineString" ->
           IF g.parts = <<>> THEN 0
           ELSE length(g.parts[1]) + length(g.parts[Len(g.parts)])
      [] OTHER -> 0

\* C19: a return with status REGENERATE_SUCCESS carries the merge of the two
\* half centerlines, and its length is at least half the length of the
\* reference line.
C19_RegeneratedLineIsMergedAndLong ==
    (ret.set /\ ret.status = REGENERATE_SUCCESS) =>
       /\ ret.how = "merged"
       /\ Truthy(ret.geom)
       /\ 2 * geom_length(ret.geom) >= length(ret.line.pts)

\* ------------------------ claims on centerline_is_valid, snap_end_to_end
\* p is within epsilon of q
Within(p, q) == Abs(p - q) <= BT_EPSILON

\* C16: centerline_is_valid returns true only for a centerline whose own
\* two end points lie within epsilon of the reference line's end points: a
\* line that merely passes within epsilon of the reference end points along
\* its interior is not accepted.
C16_NoPassingLineAccepted ==
    ~ /\ geo.fn = "centerline_is_valid"
      /\ geo.called
      /\ geo.valid
      /\ length(geo.reference.pts) > 0
      /\ \A c \in {geo.line.pts[1], geo.line.pts[Len(geo.line.pts)]} :
           \A r \in {geo.reference.pts[1],
                      geo.reference.pts[Len(geo.reference.pts)]} :
              ~Within(c, r)

\* C17: snapping a snapped line again changes nothing, and snapping changes
\* only the first and the last point of a line.
C17_SnapIdempotent ==
    (geo.fn = "snap_end_to_end" /\ geo.called) =>
       /\ geo.again = geo.snapped
       /\ Len(geo.snapped.pts) = Len(geo.line.pts)
       /\ \A i \in 2..(Len(geo.line.pts) - 1) :
            geo.snapped.pts[i] = geo.line.pts[i]

\* C17 witness: a line of three points, both of whose ends were moved by
\* the snapping, has been snapped twice.
C17_Witness ==
    /\ geo.fn = "snap_end_to_end"
    /\ geo.called
    /\ Len(geo.line.pts) = 3
    /\ geo.snapped.pts[1] # geo.line.pts[1]
    /\ geo.snapped.pts[3] # geo.line.pts[3]
    /\ geo.snapped.pts[1] # geo.snapped.pts[3]
    /\ geo.again = geo.snapped

\* ------------------------------------------------- claims on SeedLine
\* C20: when SeedLine.compute has finished, whatever happened on the way,
\* the SeedLine holds a centerline that is not None and its line record
\* carries one of the four status codes.
C20_EveryLineHasCenterlineAndStatus ==
    seed.pc = "done" =>
       /\ Truthy(seed.centerline)
       /\ seed.status \in {SUCCESS, FAILED, REGENERATE_SUCCESS, REGENERATE_FAILED}

\* C21: no failure inside a feature's processing leaves SeedLine.compute as
\* an exception: compute returns normally, at the first and at the second
\* clip alike.
C21_NoExceptionLeavesCompute ==
    seed.pc = "done" => seed.returned # "exception"

\* ------------------------------------------- claims on find_centerlines
\* C22: find_centerlines gives one output row for every row of poly_gpd: a
\* row whose pairing fails is not dropped, nor is any row after it.
C22_OneRowPerPolygonRow ==
    batch.pc \in {"returned", "raised"} =>
       /\ Len(batch.centerline_gpd) = Len(batch.poly_gpd)
       /\ \A i \in 1..Len(batch.poly_gpd) :
            batch.centerline_gpd[i].OLnFID = batch.poly_gpd[i].OLnFID

\* C23: every row produced by process_single_centerline carries a status
\* field with the value of the status find_centerline returned for it.
C23_RowCarriesStatus ==
    \A i \in 1..Len(batch.rows_and_paths) :
       batch.rows_and_paths[i].processed =>
          batch.rows_and_paths[i].status = batch.rows_and_paths[i].returned_status

\* ------------------------------------ claims on the ends of a centerline
\* C28: a single-part line that find_centerline returns with SUCCESS has one
\* end within epsilon of each end of the reference line; its two ends are
\* never both at the same reference end.
C28_SuccessLineEndsAtBothReferenceEnds ==
    (ret.set /\ ret.status = SUCCESS /\ ret.geom.k = "LineString"
       /\ length(ret.line.pts) > 0) =>
       LET c0 == ret.geom.pts[1]
           c1 == ret.geom.pts[Len(ret.geom.pts)]
           r0 == ret.line.pts[1]
           r1 == ret.line.pts[Len(ret.line.pts)]
       IN \/ Within(c0, r0) /\ Within(c1, r1)
          \/ Within(c0, r1) /\ Within(c1, r0)

\* ----------------------------------------------------- claims on the GUI
\* At most one tool process exists at any time (the half of C30 that holds)
AtMostOneProcess ==
    /\ gui.processes <= 1
    /\ gui.processes = 1 <=> gui.process # "None"

\* C30: a tool newly started by start_process is never terminated because
\* of a cancel_op flag that an earlier stop_process left set, and at most
\* one tool process exists at any time.
C30_CancelHitsRunningToolOnly ==
    /\ ~gui.spoiled
    /\ gui.processes <= 1

====
